---- MODULE Spec2Model ----
(***************************************************************************)
(* A model of mongowiz: the type codec (core/backup.py process_document,   *)
(* json_serialize; core/restore.py restore_types), the resumable backup    *)
(* pipeline (backup_collection) and the restore pipeline                   *)
(* (restore_collection), sharing one backup file and two collections.      *)
(***************************************************************************)
EXTENDS Integers, Sequences, FiniteSets, TLC

(***************************************************************************)
(* Bounds of the model.                                                    *)
(***************************************************************************)
\* longest source collection
MaxDocs == 3
\* largest batch_size argument of backup_collection
MaxBatch == 3
\* largest max_retries argument of backup_collection
MaxRetries == 2
\* nesting depth of the values fed to the codec
MaxDepth == 2
\* restore.py:102 fixes batch_size = 1000; the model restores in batches of
\* this scaled size
RestoreBatch == 2

\* default of the retry_delay argument
RetryDelayDefault == 5

(***************************************************************************)
(* Python values.  Every value is a record tagged by its type; equal tags  *)
(* carry the same fields.                                                  *)
(***************************************************************************)
None == [t |-> "null"]
PyBool(b) == [t |-> "bool", b |-> b]
PyInt(i) == [t |-> "int", i |-> i]
PyFloat(f) == [t |-> "float", f |-> f]
PyStr(s) == [t |-> "str", s |-> s]
PyBytes(s) == [t |-> "bytes", s |-> s]
PyDatetime(ms) == [t |-> "datetime", ms |-> ms]
PyObjectId(n) == [t |-> "oid", n |-> n]
PyDict(d) == [t |-> "dict", d |-> d]
PyList(l) == [t |-> "list", l |-> l]
\* an exception propagating out of an expression
Raise == [t |-> "raise"]

EmptyDict == PyDict(<<>>)
EmptyList == PyList(<<>>)

\* the digits a modelled timestamp or object id ranges over
Stamps == 0 .. 9

\* datetime.isoformat()
isoformat(ms) == "2024-01-01T00:00:0" \o ToString(ms)
\* str(ObjectId): 24 hexadecimal digits
OidStr(n) == "65a1b2c3d4e5f6a7b8c9d0e" \o ToString(n)
\* str(bytes): the repr of the bytes object
ReprBytes(s) == "b'" \o s \o "'"

\* datetime.fromisoformat(x): ValueError/TypeError unless x is an ISO string
fromisoformat(x) ==
    IF x.t = "str" /\ \E ms \in Stamps : isoformat(ms) = x.s
    THEN PyDatetime(CHOOSE ms \in Stamps : isoformat(ms) = x.s)
    ELSE Raise

\* bson.ObjectId(x): InvalidId/TypeError unless x is an ObjectId or a
\* 24-hex-digit string
ObjectId(x) ==
    IF x.t = "oid" THEN x
    ELSE IF x.t = "str" /\ \E n \in Stamps : OidStr(n) = x.s
    THEN PyObjectId(CHOOSE n \in Stamps : OidStr(n) = x.s)
    ELSE Raise

Wrapper(type_name, type_value) ==
    PyDict(("$type" :> PyStr(type_name)) @@ ("$value" :> PyStr(type_value)))

(***************************************************************************)
(* core/backup.py: the encoder.                                            *)
(***************************************************************************)
json_serialize(obj) ==
    CASE obj.t = "null" -> None
      [] obj.t = "datetime" -> Wrapper("datetime", isoformat(obj.ms))
      [] obj.t = "oid" -> Wrapper("ObjectId", OidStr(obj.n))
      [] obj.t = "bytes" -> PyStr(ReprBytes(obj.s))
      [] OTHER -> obj

RECURSIVE process_document(_)
process_document(doc) ==
    IF doc.t # "dict" THEN EmptyDict
    ELSE PyDict([k \in DOMAIN doc.d |->
            LET v == doc.d[k] IN
            CASE v.t = "dict" -> process_document(v)
              [] v.t = "list" ->
                    PyList([i \in 1 .. Len(v.l) |->
                            IF v.l[i].t = "dict"
                            THEN process_document(v.l[i])
                            ELSE json_serialize(v.l[i])])
              [] OTHER -> json_serialize(v)])

(***************************************************************************)
(* core/restore.py: the decoder.  An exception raised for one element      *)
(* propagates out of the comprehension that holds it.                      *)
(***************************************************************************)
\* a decoder that converts nothing
restore_types_literal(value) == value

\* a decoder that rejects a wrapper whose "$type" it does not know
RECURSIVE restore_types_strict(_)
restore_types_strict(value) ==
    CASE value.t = "dict" ->
            IF {"$type", "$value"} \subseteq DOMAIN value.d
            THEN IF value.d["$type"] = PyStr("ObjectId")
                 THEN ObjectId(value.d["$value"])
                 ELSE IF value.d["$type"] = PyStr("datetime")
                 THEN fromisoformat(value.d["$value"])
                 ELSE Raise
            ELSE LET r == [k \in DOMAIN value.d |->
                            restore_types_strict(value.d[k])] IN
                 IF \E k \in DOMAIN r : r[k] = Raise THEN Raise ELSE PyDict(r)
      [] value.t = "list" ->
            LET r == [i \in 1 .. Len(value.l) |->
                        restore_types_strict(value.l[i])] IN
            IF \E i \in 1 .. Len(r) : r[i] = Raise THEN Raise ELSE PyList(r)
      [] OTHER -> value

RECURSIVE restore_types(_)
restore_types(value) ==
    LET items ==
            LET r == [k \in DOMAIN value.d |-> restore_types(value.d[k])] IN
            IF \E k \in DOMAIN r : r[k] = Raise THEN Raise ELSE PyDict(r)
    IN
    CASE value.t = "dict" ->
            IF {"$type", "$value"} \subseteq DOMAIN value.d
            THEN LET type_name == value.d["$type"]
                     type_value == value.d["$value"]
                 IN  IF type_name = PyStr("ObjectId") THEN ObjectId(type_value)
                     ELSE IF type_name = PyStr("datetime")
                     THEN fromisoformat(type_value)
                     ELSE items
            ELSE items
      [] value.t = "list" ->
            LET r == [i \in 1 .. Len(value.l) |-> restore_types(value.l[i])] IN
            IF \E i \in 1 .. Len(r) : r[i] = Raise THEN Raise ELSE PyList(r)
      [] OTHER -> value

(***************************************************************************)
(* JSON text.  The text of a file is a sequence of tokens: the brackets    *)
(* and commas of the top-level array, which backup_collection writes and   *)
(* slices itself, and one token per element, holding the element's JSON    *)
(* value.                                                                  *)
(***************************************************************************)
LB == [k |-> "["]
RB == [k |-> "]"]
Comma == [k |-> ","]
Elem(v) == [k |-> "elem", v |-> v]

\* what json.dumps can encode: TypeError "not JSON serializable" otherwise
RECURSIVE Serializable(_)
Serializable(v) ==
    CASE v.t \in {"null", "bool", "int", "float", "str"} -> TRUE
      [] v.t = "dict" -> \A k \in DOMAIN v.d : Serializable(v.d[k])
      [] v.t = "list" -> \A i \in 1 .. Len(v.l) : Serializable(v.l[i])
      [] OTHER -> FALSE

\* json.dumps(batch, indent=2): the text of a list of values
RECURSIVE Joined(_)
Joined(batch) ==
    IF batch = <<>> THEN <<>>
    ELSE IF Len(batch) = 1 THEN <<Elem(batch[1])>>
    ELSE <<Elem(batch[1]), Comma>> \o Joined(Tail(batch))

dumps(batch) == <<LB>> \o Joined(batch) \o <<RB>>

\* text[1:-1]
StripBrackets(text) == SubSeq(text, 2, Len(text) - 1)

\* the list of the values of a comma-separated text, or Raise
RECURSIVE Elements(_)
Elements(toks) ==
    IF Len(toks) = 1 /\ toks[1].k = "elem" THEN PyList(<<toks[1].v>>)
    ELSE IF Len(toks) >= 3 /\ toks[1].k = "elem" /\ toks[2] = Comma
    THEN LET rest == Elements(SubSeq(toks, 3, Len(toks))) IN
         IF rest = Raise THEN Raise ELSE PyList(<<toks[1].v>> \o rest.l)
    ELSE Raise

\* a parser that takes a text whose closing bracket is missing
json_load_unclosed(text) ==
    IF Len(text) = 1 /\ text[1].k = "elem" THEN text[1].v
    ELSE IF Len(text) >= 1 /\ text[1] = LB
    THEN LET body == IF text[Len(text)] = RB
                     THEN StripBrackets(text)
                     ELSE SubSeq(text, 2, Len(text))
         IN  IF body = <<>> THEN EmptyList ELSE Elements(body)
    ELSE Raise

\* json.load(f): the value of the whole text, or Raise (JSONDecodeError)
json_load(text) ==
    IF Len(text) = 1 /\ text[1].k = "elem" THEN text[1].v
    ELSE IF Len(text) >= 2 /\ text[1] = LB /\ text[Len(text)] = RB
    THEN IF Len(text) = 2 THEN EmptyList
         ELSE Elements(StripBrackets(text))
    ELSE Raise

(***************************************************************************)
(* The values the codec is applied to: scalars, and to depth MaxDepth      *)
(* lists and objects of them, with some mixed and wrapper-shaped samples.  *)
(***************************************************************************)
Scalars ==
    { None, PyBool(TRUE), PyInt(0), PyInt(7), PyFloat(1), PyStr(""),
      PyStr("a"), PyBytes("x"), PyDatetime(1), PyObjectId(2) }

Samples ==
    { PyList(<<PyInt(7), None, PyStr("a")>>),
      PyList(<<PyDatetime(1), PyObjectId(2)>>),
      PyDict(("k" :> PyInt(7)) @@ ("at" :> PyDatetime(1))),
      PyDict(("$type" :> PyStr("ObjectId")) @@ ("$value" :> PyStr("a"))),
      PyDict(("$type" :> PyStr("uuid")) @@ ("$value" :> PyStr("a"))),
      PyDict(("$type" :> PyStr("uuid")) @@ ("$value" :> PyDatetime(1))) }

RECURSIVE Values(_)
Values(depth) ==
    IF depth = 0 THEN Scalars
    ELSE LET inner == Values(depth - 1) IN
         Scalars \cup Samples \cup {EmptyList, EmptyDict}
            \cup {PyList(<<v>>) : v \in inner}
            \cup {PyDict("k" :> v) : v \in inner}

\* the documents handed to process_document
Documents == {PyDict("a" :> v) : v \in Values(MaxDepth)}

(***************************************************************************)
(* The source collection.  Documents carry integer _id values; find()      *)
(* without a sort yields them in the collection's natural order.           *)
(***************************************************************************)
SrcIds == 0 .. 3

SrcDoc(i) ==
    PyDict(("_id" :> PyInt(i)) @@
           ("v" :> CASE i = 0 -> None
                     [] i = 1 -> PyDatetime(1)
                     [] i = 2 -> PyList(<<PyObjectId(2), PyDict("k" :> PyStr("a"))>>)
                     [] OTHER -> PyList(<<PyList(<<PyDatetime(3)>>)>>)))

RECURSIVE Arrangements(_)
\* the sequences without repetition of at most n source documents
Arrangements(n) ==
    IF n = 0 THEN {<<>>}
    ELSE LET shorter == Arrangements(n - 1) IN
         shorter \cup
         { Append(p[1], SrcDoc(p[2])) :
             p \in { c \in shorter \X SrcIds :
                       /\ Len(c[1]) = n - 1
                       /\ \A a \in 1 .. Len(c[1]) : c[1][a] # SrcDoc(c[2]) } }

Absent == [exists |-> FALSE, docs |-> <<>>]
Collection(docs) == [exists |-> TRUE, docs |-> docs]

NoFile == [exists |-> FALSE, text |-> <<>>]
File(text) == [exists |-> TRUE, text |-> text]

\* bool(value) for the values an _id takes
Truthy(v) ==
    ~ \/ v.t = "null"
      \/ v.t = "int" /\ v.i = 0
      \/ v.t = "str" /\ v.s = ""

VARIABLES
    \* the codec applied in isolation
    cpc, cval, cwire, cback,
    \* the database collection and the backup directory
    coll, backup_path, disk,
    \* backup_collection: arguments, locals, the open file's buffer, the
    \* cursor's remaining documents, return value and last error logged
    bpc, batch_size, max_retries, retry_count, retry_delay,
    last_processed_id, processed_total, estimated_docs, batch, cursor, wbuf,
    bresult, blog,
    \* the durations backup_collection has passed to time.sleep
    sleeps,
    \* the number of failures the environment raised during the backup, and
    \* the collection as it was when backup_collection was called
    faults, source,
    \* restore_collection: argument, locals, insert_many calls, outcome, and
    \* the collection as it was at the call
    rpc, force, documents, ridx, current_batch, insert_calls, rresult, before,
    \* two backup_collection invocations running side by side: the locals,
    \* file and return value of each, whether the database directory they
    \* share exists; and the same invocations each running alone, with a
    \* directory of its own
    pair, shared_dir, solo, own_dir,
    \* get_collections_info: the dict returned
    collections_info,
    \* run_restore_wizard: its position, whether a backup folder exists, the
    \* answer to the confirmation, the restore_collection calls made, and
    \* the value returned
    wizard

codecVars == <<cpc, cval, cwire, cback>>
envVars == <<coll, backup_path, disk>>
backupVars ==
    <<bpc, batch_size, max_retries, retry_count, retry_delay,
      last_processed_id, processed_total, estimated_docs, batch, cursor,
      wbuf, bresult, blog, sleeps, faults, source>>
restoreVars ==
    <<rpc, force, documents, ridx, current_batch, insert_calls, rresult,
      before>>
pairVars == <<pair, shared_dir, solo, own_dir>>
listVars == <<collections_info>>
wizardVars == <<wizard>>
vars ==
    <<codecVars, envVars, backupVars, restoreVars, pairVars, listVars,
      wizardVars>>

CodecIdle ==
    /\ cpc = "idle" /\ cval = None /\ cwire = None /\ cback = None

BackupIdle ==
    /\ bpc = "idle"
    /\ batch_size = 1 /\ max_retries = 0 /\ retry_count = 0
    /\ retry_delay = RetryDelayDefault /\ sleeps = <<>>
    /\ last_processed_id = None /\ processed_total = 0
    /\ estimated_docs = 0 /\ batch = <<>> /\ cursor = <<>> /\ wbuf = <<>>
    /\ bresult = "none" /\ blog = "" /\ faults = 0 /\ source = Absent

RestoreIdle ==
    /\ rpc = "idle" /\ force = FALSE /\ documents = <<>> /\ ridx = 1
    /\ current_batch = <<>> /\ insert_calls = <<>> /\ rresult = "none"
    /\ before = Absent

\* the two invocations
Invocations == 1 .. 2

\* the locals, file and return value of an invocation that has not begun
Local(docs, size, retries) ==
    [ pc |-> "check", docs |-> docs, batch_size |-> size,
      max_retries |-> retries, retry_count |-> 0,
      last_processed_id |-> None, processed_total |-> 0, batch |-> <<>>,
      cursor |-> <<>>, file |-> NoFile, result |-> "none",
      found_dir |-> FALSE ]

PairIdle ==
    /\ pair = [p \in Invocations |-> [Local(<<>>, 1, 0) EXCEPT !.pc = "idle"]]
    /\ solo = pair
    /\ shared_dir = FALSE
    /\ own_dir = [p \in Invocations |-> FALSE]

\* get_collections_info has not been called
NotListed == [called |-> FALSE]

ListIdle == collections_info = NotListed

\* run_restore_wizard has not been called
NotStarted ==
    [pc |-> "idle", backup_folders |-> FALSE, confirmed |-> "none",
     calls |-> 0, result |-> "none"]

WizardIdle == wizard = NotStarted

(***************************************************************************)
(* The codec on its own: encode a document, then decode the result.        *)
(***************************************************************************)
CodecInit ==
    /\ cpc = "start" /\ cval \in Documents /\ cwire = None /\ cback = None
    /\ coll = Absent /\ backup_path = FALSE /\ disk = NoFile
    /\ BackupIdle /\ RestoreIdle /\ PairIdle /\ ListIdle /\ WizardIdle

Encode ==
    /\ cpc = "start"
    /\ cwire' = process_document(cval)
    /\ cpc' = "encoded"
    /\ UNCHANGED <<cval, cback, envVars, backupVars, restoreVars, pairVars,
                   listVars, wizardVars>>

Decode ==
    /\ cpc = "encoded"
    /\ cback' = restore_types(cwire)
    /\ cpc' = "decoded"
    /\ UNCHANGED <<cval, cwire, envVars, backupVars, restoreVars, pairVars,
                   listVars, wizardVars>>

CodecNext == Encode \/ Decode

CodecSpec == CodecInit /\ [][CodecNext]_vars

\* C5: decoding the encoding of a document gives the document back
C5_RoundTrip == cpc = "decoded" => cback = cval

(***************************************************************************)
(* backup_collection (core/backup.py).                                     *)
(***************************************************************************)
Running == {"check", "mkdir", "stats", "open", "loop", "write", "close"}

\* the documents find(query) yields, in natural order
Find(docs, query_id) ==
    IF Truthy(query_id)
    THEN SelectSeq(docs, LAMBDA d : d.d["_id"].i > query_id.i)
    ELSE docs

\* the test on the resume cursor inverted
OpeningTextInverted(resuming) == IF resuming THEN <<LB>> ELSE <<>>

\* what is written when the file is opened: '[\n' if starting fresh
OpeningText(resuming) == IF resuming THEN <<>> ELSE <<LB>>

\* the separator written before every full batch, the first included
SeparatorEarly(total, size) == IF total >= size THEN <<Comma>> ELSE <<>>

\* the separator written before a fragment: ',\n' if not the first batch
Separator(total, size) == IF total > size THEN <<Comma>> ELSE <<>>

\* json.dumps(batch, indent=2)[1:-1]
Fragment(b) == StripBrackets(dumps(b))

\* the with block is left: the buffer reaches the file
Closed(d, buf) == File(d.text \o buf)

\* The backup directory is a fresh one: get_backup_location (ui/wizard.py)
\* defaults to a new timestamped directory, and callers do not re-target a
\* finished backup set.
Init ==
    /\ CodecIdle
    /\ coll \in {Absent} \cup {Collection(q) : q \in Arrangements(MaxDocs)}
    /\ backup_path = FALSE /\ disk = NoFile
    /\ BackupIdle /\ RestoreIdle /\ PairIdle /\ ListIdle /\ WizardIdle

\* the call, lines 96-116
BackupCall(size, retries) ==
    /\ bpc = "idle" /\ rpc = "idle"
    /\ batch_size' = size /\ max_retries' = retries
    /\ retry_count' = 0 /\ last_processed_id' = None /\ processed_total' = 0
    /\ retry_delay' = RetryDelayDefault /\ sleeps' = <<>>
    /\ bpc' = "check"
    /\ source' = coll
    /\ UNCHANGED <<estimated_docs, batch, cursor, wbuf, bresult, blog, faults,
                   codecVars, pairVars, listVars, wizardVars, envVars, restoreVars>>

BackupReturn(value, logged) ==
    /\ bpc' = "done" /\ bresult' = value /\ blog' = logged

\* the listing of the collections not consulted
CheckExistsSkipped ==
    /\ bpc = "check"
    /\ bpc' = "mkdir"
    /\ UNCHANGED <<batch_size, max_retries, retry_count, retry_delay, sleeps,
                   last_processed_id, processed_total, estimated_docs, batch,
                   cursor, wbuf, bresult, blog, faults, codecVars, pairVars, listVars, wizardVars, source,
                   envVars, restoreVars>>

\* lines 118-125: the collection must be listed
CheckExists ==
    /\ bpc = "check"
    /\ IF coll.exists
       THEN bpc' = "mkdir" /\ UNCHANGED <<bresult, blog>>
       ELSE BackupReturn("False", "does not exist")
    /\ UNCHANGED <<batch_size, max_retries, retry_count, retry_delay, sleeps,
                   last_processed_id, processed_total, estimated_docs, batch,
                   cursor, wbuf, faults, codecVars, pairVars, listVars, wizardVars, source, envVars, restoreVars>>

\* list_collection_names raises: the outer handler, lines 224-226
ListNamesFails ==
    /\ bpc = "check"
    /\ BackupReturn("False", "unexpected")
    /\ faults' = faults + 1
    /\ UNCHANGED <<batch_size, max_retries, retry_count, retry_delay, sleeps,
                   last_processed_id, processed_total, estimated_docs, batch,
                   cursor, wbuf, codecVars, pairVars, listVars, wizardVars, source, envVars, restoreVars>>

\* lines 128-130: mkdir(parents=True, exist_ok=True)
MakeDir ==
    /\ bpc = "mkdir"
    /\ backup_path' = TRUE
    /\ bpc' = "stats"
    /\ UNCHANGED <<batch_size, max_retries, retry_count, retry_delay, sleeps,
                   last_processed_id, processed_total, estimated_docs, batch,
                   cursor, wbuf, bresult, blog, faults, codecVars, pairVars, listVars, wizardVars, source, coll, disk,
                   restoreVars>>

\* lines 131-133: a directory that does not exist cannot be created
MakeDirFails ==
    /\ bpc = "mkdir" /\ ~backup_path
    /\ BackupReturn("False", "mkdir")
    /\ faults' = faults + 1
    /\ UNCHANGED <<batch_size, max_retries, retry_count, retry_delay, sleeps,
                   last_processed_id, processed_total, estimated_docs, batch,
                   cursor, wbuf, codecVars, pairVars, listVars, wizardVars, source, envVars, restoreVars>>

\* a collStats failure left to the outer handler
CollStatsRequired(granted) ==
    /\ bpc = "stats"
    /\ IF granted
       THEN /\ estimated_docs' = Len(coll.docs)
            /\ bpc' = "open"
            /\ UNCHANGED <<bresult, blog>>
       ELSE /\ BackupReturn("False", "unexpected")
            /\ UNCHANGED estimated_docs
    /\ UNCHANGED <<batch_size, max_retries, retry_count, retry_delay, sleeps,
                   last_processed_id, processed_total, batch, cursor, wbuf,
                   faults, codecVars, pairVars, listVars, wizardVars, source, envVars, restoreVars>>

\* lines 136-141: collStats, or 0 when the command fails
CollStats(granted) ==
    /\ bpc = "stats"
    /\ estimated_docs' = IF granted THEN Len(coll.docs) ELSE 0
    /\ bpc' = "open"
    /\ UNCHANGED <<batch_size, max_retries, retry_count, retry_delay, sleeps,
                   last_processed_id, processed_total, batch, cursor, wbuf,
                   bresult, blog, faults, codecVars, pairVars, listVars, wizardVars, source, envVars, restoreVars>>

\* the file opened in append mode whether resuming or not
OpenFileAppends ==
    /\ bpc = "open"
    /\ disk' = File(disk.text)
    /\ wbuf' = OpeningText(Truthy(last_processed_id))
    /\ cursor' = Find(coll.docs, last_processed_id)
    /\ batch' = <<>>
    /\ bpc' = "loop"
    /\ UNCHANGED <<batch_size, max_retries, retry_count, retry_delay, sleeps,
                   last_processed_id, processed_total, estimated_docs,
                   bresult, blog, faults, codecVars, pairVars, listVars, wizardVars,
                   source, coll, backup_path, restoreVars>>

\* lines 144-161: open the file ('a' if resuming, else 'w'), write the
\* opening bracket if starting fresh, build the query and the cursor
OpenFile ==
    /\ bpc = "open"
    /\ LET resuming == Truthy(last_processed_id) IN
       /\ disk' = IF resuming THEN File(disk.text) ELSE File(<<>>)
       /\ wbuf' = OpeningText(resuming)
    /\ cursor' = Find(coll.docs, last_processed_id)
    /\ batch' = <<>>
    /\ bpc' = "loop"
    /\ UNCHANGED <<batch_size, max_retries, retry_count, retry_delay, sleeps,
                   last_processed_id, processed_total, estimated_docs,
                   bresult, blog, faults, codecVars, pairVars, listVars, wizardVars, source, coll, backup_path,
                   restoreVars>>

\* lines 217-222: any other exception deletes the file, if there is one
Cleanup ==
    /\ disk' = NoFile
    /\ wbuf' = <<>>
    /\ BackupReturn("False", "failed")

\* open raises OSError
OpenFails ==
    /\ bpc = "open"
    /\ Cleanup
    /\ faults' = faults + 1
    /\ UNCHANGED <<batch_size, max_retries, retry_count, retry_delay, sleeps,
                   last_processed_id, processed_total, estimated_docs, batch,
                   cursor, codecVars, pairVars, listVars, wizardVars, source, coll, backup_path, restoreVars>>

\* lines 163-169: the cursor yields a document
CursorYield ==
    /\ bpc = "loop" /\ cursor # <<>>
    /\ LET doc == Head(cursor) IN
       /\ batch' = Append(batch, process_document(doc))
       /\ last_processed_id' = doc.d["_id"]
    /\ processed_total' = processed_total + 1
    /\ cursor' = Tail(cursor)
    /\ bpc' = IF Len(batch) + 1 >= batch_size THEN "write" ELSE "loop"
    /\ UNCHANGED <<batch_size, max_retries, retry_count, retry_delay, sleeps,
                   estimated_docs, wbuf, bresult, blog, faults, codecVars, pairVars, listVars, wizardVars, source,
                   envVars, restoreVars>>

\* a full batch written and not cleared
WriteBatchKeeps ==
    /\ bpc = "write"
    /\ IF \A i \in 1 .. Len(batch) : Serializable(batch[i])
       THEN /\ disk' = File(disk.text \o wbuf
                             \o Separator(processed_total, batch_size)
                             \o Fragment(batch))
            /\ wbuf' = <<>>
            /\ bpc' = "loop"
            /\ UNCHANGED <<batch, bresult, blog>>
       ELSE Cleanup /\ UNCHANGED batch
    /\ UNCHANGED <<batch_size, max_retries, retry_count, retry_delay, sleeps,
                   last_processed_id, processed_total, estimated_docs, cursor,
                   faults, codecVars, pairVars, listVars, wizardVars, source, coll,
                   backup_path, restoreVars>>

\* lines 172-183: a full batch is written and flushed; json.dumps raising
\* TypeError is handled at lines 217-222
WriteBatch ==
    /\ bpc = "write"
    /\ IF \A i \in 1 .. Len(batch) : Serializable(batch[i])
       THEN /\ disk' = File(disk.text \o wbuf
                             \o Separator(processed_total, batch_size)
                             \o Fragment(batch))
            /\ wbuf' = <<>>
            /\ batch' = <<>>
            /\ bpc' = "loop"
            /\ UNCHANGED <<bresult, blog>>
       ELSE Cleanup /\ UNCHANGED batch
    /\ UNCHANGED <<batch_size, max_retries, retry_count, retry_delay, sleeps,
                   last_processed_id, processed_total, estimated_docs, cursor,
                   faults, codecVars, pairVars, listVars, wizardVars, source, coll, backup_path, restoreVars>>

\* f.write or f.flush raises OSError
WriteFails ==
    /\ bpc = "write"
    /\ Cleanup
    /\ faults' = faults + 1
    /\ UNCHANGED <<batch_size, max_retries, retry_count, retry_delay, sleeps,
                   last_processed_id, processed_total, estimated_docs, batch,
                   cursor, codecVars, pairVars, listVars, wizardVars, source, coll, backup_path, restoreVars>>

\* the delay left as it is after a wait
NextDelayConstant(delay) == delay

\* line 211: retry_delay *= 2
NextDelay(delay) == delay * 2

\* a transient failure retried whatever retry_count has reached
CursorFailsAlwaysRetries ==
    /\ bpc = "loop"
    /\ retry_count < max_retries + 3
    /\ disk' = Closed(disk, wbuf)
    /\ wbuf' = <<>>
    /\ retry_count' = retry_count + 1
    /\ faults' = faults + 1
    /\ sleeps' = Append(sleeps, retry_delay)
    /\ retry_delay' = NextDelay(retry_delay)
    /\ bpc' = "check"
    /\ UNCHANGED <<batch_size, max_retries, last_processed_id,
                   processed_total, estimated_docs, batch, cursor, bresult,
                   blog, codecVars, pairVars, listVars, wizardVars, source, coll,
                   backup_path, restoreVars>>

\* lines 204-215: the cursor raises ConnectionFailure or OperationFailure
CursorFails ==
    /\ bpc = "loop"
    /\ disk' = Closed(disk, wbuf)
    /\ wbuf' = <<>>
    /\ retry_count' = retry_count + 1
    /\ faults' = faults + 1
    /\ IF retry_count + 1 <= max_retries
       THEN /\ sleeps' = Append(sleeps, retry_delay)
            /\ retry_delay' = NextDelay(retry_delay)
            /\ bpc' = "check"
            /\ UNCHANGED <<bresult, blog>>
       ELSE /\ BackupReturn("False", "max retries")
            /\ UNCHANGED <<retry_delay, sleeps>>
    /\ UNCHANGED <<batch_size, max_retries, last_processed_id,
                   processed_total, estimated_docs, batch, cursor, codecVars, pairVars, listVars, wizardVars, source,
                   coll, backup_path, restoreVars>>

\* lines 191-196: the cursor is exhausted; the remaining documents are written
WriteRemaining ==
    /\ bpc = "loop" /\ cursor = <<>>
    /\ IF batch = <<>>
       THEN bpc' = "close" /\ UNCHANGED <<disk, wbuf, bresult, blog>>
       ELSE IF \A i \in 1 .. Len(batch) : Serializable(batch[i])
       THEN /\ wbuf' = wbuf \o Separator(processed_total, batch_size)
                            \o Fragment(batch)
            /\ bpc' = "close"
            /\ UNCHANGED <<disk, bresult, blog>>
       ELSE Cleanup
    /\ UNCHANGED <<batch_size, max_retries, retry_count, retry_delay, sleeps,
                   last_processed_id, processed_total, estimated_docs, batch,
                   cursor, faults, codecVars, pairVars, listVars, wizardVars, source, coll, backup_path, restoreVars>>

\* lines 198-202: the closing bracket, the file is closed, True is returned
CloseArray ==
    /\ bpc = "close"
    /\ disk' = Closed(disk, wbuf \o <<RB>>)
    /\ wbuf' = <<>>
    /\ BackupReturn("True", "")
    /\ UNCHANGED <<batch_size, max_retries, retry_count, retry_delay, sleeps,
                   last_processed_id, processed_total, estimated_docs, batch,
                   cursor, faults, codecVars, pairVars, listVars, wizardVars, source, coll, backup_path, restoreVars>>

\* the process is killed: of the buffer, any prefix may have reached the file
Kill(reached) ==
    /\ bpc \in Running
    /\ reached \in 0 .. Len(wbuf)
    /\ disk' = IF disk.exists
               THEN File(disk.text \o SubSeq(wbuf, 1, reached))
               ELSE disk
    /\ wbuf' = <<>>
    /\ bpc' = "killed"
    /\ UNCHANGED <<batch_size, max_retries, retry_count, retry_delay, sleeps,
                   last_processed_id, processed_total, estimated_docs, batch,
                   cursor, bresult, blog, faults, codecVars, pairVars, listVars, wizardVars, source, coll,
                   backup_path, restoreVars>>

BackupNext ==
    \/ \E size \in 1 .. MaxBatch, retries \in 0 .. MaxRetries :
            BackupCall(size, retries)
    \/ CheckExists
    \/ ListNamesFails
    \/ MakeDir
    \/ MakeDirFails
    \/ \E granted \in BOOLEAN : CollStats(granted)
    \/ OpenFile
    \/ OpenFails
    \/ CursorYield
    \/ WriteBatch
    \/ WriteFails
    \/ CursorFails
    \/ WriteRemaining
    \/ CloseArray
    \/ \E reached \in 0 .. Len(wbuf) : Kill(reached)

(***************************************************************************)
(* Between the two pipelines: a backup file put in place by hand, and the  *)
(* collection dropped.                                                     *)
(***************************************************************************)
\* a wire document whose _id is a tagged ObjectId
WireDoc(n) ==
    PyDict(("_id" :> Wrapper("ObjectId", OidStr(n))) @@ ("n" :> PyInt(n)))

\* a wire document whose _id wrapper holds no valid ObjectId string
BadWireDoc == PyDict(("_id" :> Wrapper("ObjectId", "zz")) @@ ("n" :> PyInt(0)))

Junk == [k |-> "junk"]

ProvidedTexts ==
    { dumps(<<>>),
      dumps(<<WireDoc(7)>>),
      dumps(<<WireDoc(7), WireDoc(8), WireDoc(9)>>),
      dumps(<<WireDoc(7), WireDoc(8), WireDoc(7)>>),
      dumps(<<WireDoc(7), WireDoc(8), BadWireDoc>>),
      dumps(<<WireDoc(7), WireDoc(8), PyInt(1)>>),
      <<LB, Elem(WireDoc(7))>>,
      <<Junk, Junk>>,
      <<Elem(EmptyDict)>>,
      <<Elem(PyDict("a" :> PyInt(1)))>>,
      <<Elem(PyInt(3))>> }

\* the locals of a finished backup_collection call are gone
Forget ==
    /\ batch_size' = 1 /\ max_retries' = 0 /\ retry_count' = 0
    /\ retry_delay' = RetryDelayDefault /\ sleeps' = <<>>
    /\ last_processed_id' = None /\ processed_total' = 0
    /\ estimated_docs' = 0 /\ batch' = <<>> /\ cursor' = <<>> /\ wbuf' = <<>>

Finished == {"skipped", "done", "killed"}

ProvideFile(text) ==
    /\ bpc = "idle" /\ rpc = "idle"
    /\ disk' = File(text)
    /\ backup_path' = TRUE
    /\ bpc' = "skipped"
    /\ UNCHANGED <<batch_size, max_retries, retry_count, retry_delay, sleeps,
                   last_processed_id, processed_total, estimated_docs, batch,
                   cursor, wbuf, bresult, blog, faults, source, codecVars, pairVars, listVars, wizardVars,
                   coll, restoreVars>>

DropCollection ==
    /\ bpc \in Finished /\ rpc = "idle"
    /\ coll.exists
    /\ coll' = Absent
    /\ Forget
    /\ UNCHANGED <<bpc, bresult, blog, faults, source, codecVars, pairVars, listVars, wizardVars,
                   backup_path, disk, restoreVars>>

(***************************************************************************)
(* restore_collection (core/restore.py).                                   *)
(***************************************************************************)
RECURSIVE KeySeq(_)
\* the keys of a dict, as iterating it yields them
KeySeq(keys) ==
    IF keys = {} THEN <<>>
    ELSE LET k == CHOOSE x \in keys : TRUE IN
         <<PyStr(k)>> \o KeySeq(keys \ {k})

\* len(v) is defined
Sized(v) == v.t \in {"list", "dict", "str"}

\* what "for doc in v" yields (of a string of at most one character)
Items(v) ==
    CASE v.t = "list" -> v.l
      [] v.t = "dict" -> KeySeq(DOMAIN v.d)
      [] OTHER -> IF v.s = "" THEN <<>> ELSE <<v>>

HasId(d, id) == "_id" \in DOMAIN d.d /\ d.d["_id"] = id

\* the first position of the batch insert_many cannot insert: one whose _id
\* is already in the collection or earlier in the batch (Len + 1 if none)
FirstDuplicate(held, b) ==
    LET dup(j) ==
            /\ "_id" \in DOMAIN b[j].d
            /\ \/ \E i \in 1 .. Len(held) : HasId(held[i], b[j].d["_id"])
               \/ \E i \in 1 .. j - 1 : HasId(b[i], b[j].d["_id"])
        bad == {j \in 1 .. Len(b) : dup(j)}
    IN  IF bad = {} THEN Len(b) + 1
        ELSE CHOOSE j \in bad : \A i \in bad : j <= i

\* how many documents of the batch insert_many inserts: none if an element
\* is no document (TypeError before anything is sent), else those before
\* the first duplicate key (BulkWriteError)
Inserted(held, b) ==
    IF \E j \in 1 .. Len(b) : b[j].t # "dict" THEN 0
    ELSE FirstDuplicate(held, b) - 1

\* the collection after insert_many has inserted the first n of the batch
AfterInsert(c, b, n) ==
    IF n = 0 THEN c ELSE Collection(c.docs \o SubSeq(b, 1, n))

RestoreCall(frc) ==
    /\ rpc = "idle" /\ bpc \in Finished \cup {"idle"}
    /\ force' = frc
    /\ before' = coll
    /\ rpc' = "check"
    /\ Forget
    /\ UNCHANGED <<bpc, bresult, blog, faults, source, documents, ridx,
                   current_batch, insert_calls, rresult, codecVars, pairVars, listVars, wizardVars, envVars>>

RestoreReturn(value) == rpc' = "done" /\ rresult' = value

\* the existing collection dropped before force is looked at
RestoreCheckDropsFirst ==
    /\ rpc = "check"
    /\ coll' = Absent
    /\ IF coll.exists /\ ~force
       THEN RestoreReturn("RestoreError")
       ELSE rpc' = "locate" /\ UNCHANGED rresult
    /\ UNCHANGED <<force, documents, ridx, current_batch, insert_calls,
                   before, codecVars, pairVars, listVars, wizardVars, backupVars, backup_path, disk>>

\* the existing collection kept under force
RestoreCheckKeeps ==
    /\ rpc = "check"
    /\ IF coll.exists /\ ~force
       THEN RestoreReturn("RestoreError")
       ELSE rpc' = "locate" /\ UNCHANGED rresult
    /\ UNCHANGED <<force, documents, ridx, current_batch, insert_calls,
                   before, codecVars, pairVars, listVars, wizardVars, backupVars, envVars>>

\* lines 84-90: an existing collection is refused, or dropped under force
RestoreCheck ==
    /\ rpc = "check"
    /\ IF coll.exists
       THEN IF ~force
            THEN RestoreReturn("RestoreError") /\ UNCHANGED coll
            ELSE /\ coll' = Absent
                 /\ rpc' = "locate" /\ UNCHANGED rresult
       ELSE rpc' = "locate" /\ UNCHANGED <<rresult, coll>>
    /\ UNCHANGED <<force, documents, ridx, current_batch, insert_calls,
                   before, codecVars, pairVars, listVars, wizardVars, backupVars, backup_path, disk>>

\* list_collection_names raises: the outer handler, lines 135-137
RestoreCheckFails ==
    /\ rpc = "check"
    /\ RestoreReturn("False")
    /\ UNCHANGED <<force, documents, ridx, current_batch, insert_calls,
                   before, codecVars, pairVars, listVars, wizardVars, backupVars, envVars>>

\* a missing backup file taken for an empty backup
RestoreLocateLenient ==
    /\ rpc = "locate"
    /\ IF disk.exists
       THEN rpc' = "load" /\ UNCHANGED rresult
       ELSE RestoreReturn("True")
    /\ UNCHANGED <<force, documents, ridx, current_batch, insert_calls,
                   before, codecVars, pairVars, listVars, wizardVars, backupVars, envVars>>

\* lines 92-94
RestoreLocate ==
    /\ rpc = "locate"
    /\ IF disk.exists
       THEN rpc' = "load" /\ UNCHANGED rresult
       ELSE RestoreReturn("False")
    /\ UNCHANGED <<force, documents, ridx, current_batch, insert_calls,
                   before, codecVars, pairVars, listVars, wizardVars, backupVars, envVars>>

\* lines 98-108: the file is parsed whole; a JSONDecodeError, or len() of a
\* value that has none, is handled at lines 129-131
RestoreLoad ==
    /\ rpc = "load"
    /\ LET loaded == json_load(disk.text) IN
       IF loaded # Raise /\ Sized(loaded)
       THEN /\ documents' = Items(loaded)
            /\ ridx' = 1
            /\ current_batch' = <<>>
            /\ rpc' = "loop"
            /\ UNCHANGED rresult
       ELSE /\ RestoreReturn("False")
            /\ UNCHANGED <<documents, ridx, current_batch>>
    /\ UNCHANGED <<force, insert_calls, before, codecVars, pairVars, listVars, wizardVars, backupVars,
                   envVars>>

\* lines 110-116: the next document is decoded and joins the batch
RestoreStep ==
    /\ rpc = "loop" /\ ridx <= Len(documents)
    /\ LET restored_doc == restore_types(documents[ridx]) IN
       IF restored_doc = Raise
       THEN /\ RestoreReturn("False")
            /\ UNCHANGED <<ridx, current_batch>>
       ELSE /\ current_batch' = Append(current_batch, restored_doc)
            /\ ridx' = ridx + 1
            /\ rpc' = IF Len(current_batch) + 1 >= RestoreBatch
                      THEN "insert" ELSE "loop"
            /\ UNCHANGED rresult
    /\ UNCHANGED <<force, documents, insert_calls, before, codecVars, pairVars, listVars, wizardVars,
                   backupVars, envVars>>

\* lines 117-119 and 123-124: insert_many(current_batch)
RestoreInsert ==
    /\ rpc = "insert"
    /\ insert_calls' = Append(insert_calls, current_batch)
    /\ LET n == Inserted(coll.docs, current_batch) IN
       /\ coll' = AfterInsert(coll, current_batch, n)
       /\ IF n = Len(current_batch)
          THEN /\ current_batch' = <<>>
               /\ rpc' = "loop"
               /\ UNCHANGED rresult
          ELSE /\ RestoreReturn("False")
               /\ UNCHANGED current_batch
    /\ UNCHANGED <<force, documents, ridx, before, codecVars, pairVars, listVars, wizardVars, backupVars,
                   backup_path, disk>>

\* a failed insert_many swallowed: the loop goes on with the next batch
RestoreInsertGoesOn(n) ==
    /\ rpc = "insert"
    /\ n < Len(current_batch)
    /\ n <= Inserted(coll.docs, current_batch)
    /\ insert_calls' = Append(insert_calls, current_batch)
    /\ coll' = AfterInsert(coll, current_batch, n)
    /\ current_batch' = <<>>
    /\ rpc' = "loop"
    /\ UNCHANGED <<force, documents, ridx, rresult, before, codecVars, pairVars, listVars, wizardVars,
                   backupVars, backup_path, disk>>

\* insert_many fails on the connection after n documents went in
RestoreInsertFails(n) ==
    /\ rpc = "insert"
    /\ n < Len(current_batch)
    /\ n <= Inserted(coll.docs, current_batch)
    /\ insert_calls' = Append(insert_calls, current_batch)
    /\ coll' = AfterInsert(coll, current_batch, n)
    /\ RestoreReturn("False")
    /\ UNCHANGED <<force, documents, ridx, current_batch, before, codecVars, pairVars, listVars, wizardVars,
                   backupVars, backup_path, disk>>

\* the loop is over; with nothing inserted so far insert_many is called
\* even if no document remains
RestoreFinishInsertsEmpty ==
    /\ rpc = "loop" /\ ridx > Len(documents)
    /\ IF current_batch # <<>> \/ insert_calls = <<>>
       THEN rpc' = "insert" /\ UNCHANGED rresult
       ELSE RestoreReturn("True")
    /\ UNCHANGED <<force, documents, ridx, current_batch, insert_calls,
                   before, codecVars, pairVars, listVars, wizardVars, backupVars, envVars>>

\* the loop is over and True is returned, the remaining batch not inserted
RestoreFinishDropsRest ==
    /\ rpc = "loop" /\ ridx > Len(documents)
    /\ RestoreReturn("True")
    /\ UNCHANGED <<force, documents, ridx, current_batch, insert_calls,
                   before, codecVars, pairVars, listVars, wizardVars, backupVars, envVars>>

\* lines 121-127: the loop is over; a remaining batch is inserted, then
\* True is returned
RestoreFinish ==
    /\ rpc = "loop" /\ ridx > Len(documents)
    /\ IF current_batch # <<>>
       THEN rpc' = "insert" /\ UNCHANGED rresult
       ELSE RestoreReturn("True")
    /\ UNCHANGED <<force, documents, ridx, current_batch, insert_calls,
                   before, codecVars, pairVars, listVars, wizardVars, backupVars, envVars>>

(***************************************************************************)
(* get_collections_info (core/restore.py), called by the restore wizard on *)
(* the backup folder before a collection is chosen.  The folder holds the  *)
(* database directory if one was made, and that the collection file.       *)
(***************************************************************************)
\* a file that cannot be read listed with no documents
EntriesLenient(file) ==
    LET data == json_load(file.text) IN
    IF file.exists
    THEN << [name |-> "coll",
             doc_count |-> IF data # Raise /\ Sized(data)
                           THEN Len(Items(data)) ELSE 0,
             size |-> Len(file.text)] >>
    ELSE <<>>

\* lines 32-39: the entries of the database directory; a file json.load
\* or len() raises for is skipped (lines 40-42)
Entries(file) ==
    LET data == json_load(file.text) IN
    IF file.exists /\ data # Raise /\ Sized(data)
    THEN << [name |-> "coll", doc_count |-> Len(Items(data)),
             size |-> Len(file.text)] >>
    ELSE <<>>

\* lines 20-46: db_name -> entries, the empty databases removed
get_collections_info(dir_exists, file) ==
    LET dbs == IF dir_exists THEN {"db"} ELSE {}
        listed == {k \in dbs : Entries(file) # <<>>}
    IN  [k \in listed |-> Entries(file)]

GetCollectionsInfo ==
    /\ bpc \in Finished /\ rpc = "idle"
    /\ ~collections_info.called
    /\ collections_info' =
            [called |-> TRUE, info |-> get_collections_info(backup_path, disk)]
    /\ UNCHANGED <<codecVars, envVars, backupVars, restoreVars, pairVars,
                   wizardVars>>

RestoreNext ==
    \/ GetCollectionsInfo
    \/ \E text \in ProvidedTexts : ProvideFile(text)
    \/ DropCollection
    \/ \E frc \in BOOLEAN : RestoreCall(frc)
    \/ RestoreCheck
    \/ RestoreCheckFails
    \/ RestoreLocate
    \/ RestoreLoad
    \/ RestoreStep
    \/ RestoreInsert
    \/ \E n \in 0 .. RestoreBatch : RestoreInsertFails(n)
    \/ RestoreFinish

Next == BackupNext \/ RestoreNext

Spec == Init /\ [][Next]_vars

\* a step of the running backup_collection: the interpreter goes on
\* executing the function until it returns or the process is killed
BackupRun ==
    \/ CheckExists \/ ListNamesFails \/ MakeDir \/ MakeDirFails
    \/ \E granted \in BOOLEAN : CollStats(granted)
    \/ OpenFile \/ OpenFails \/ CursorYield \/ WriteBatch \/ WriteFails
    \/ CursorFails \/ WriteRemaining \/ CloseArray
    \/ \E reached \in 0 .. Len(wbuf) : Kill(reached)

LiveSpec == Spec /\ WF_vars(BackupRun)

(***************************************************************************)
(* Two invocations of backup_collection for two collections of one         *)
(* database, their steps interleaved.  Each has its own locals and its own *)
(* file; the database directory is the one thing they share.  Next to      *)
(* them, each invocation runs alone on the same schedule of failures.      *)
(***************************************************************************)
\* largest batch_size of the two invocations
PairBatch == 2
\* largest max_retries of the two invocations
PairRetries == 1

\* the collections of the two invocations
PairDocs(p) ==
    IF p = 1 THEN <<SrcDoc(1), SrcDoc(2)>> ELSE <<SrcDoc(0), SrcDoc(1)>>

\* mkdir(parents=True, exist_ok=False): an existing directory is an error
MakeDirRaisesIfExists(exists, fault) == fault \/ exists

\* line 130, mkdir(parents=True, exist_ok=True): an existing directory is
\* none, whoever made it
MakeDirRaises(exists, fault) == fault

\* False is returned; the handler at lines 217-222 unlinks the file first
Failed(s, unlink) ==
    [s EXCEPT !.pc = "done", !.result = "False",
              !.file = IF unlink THEN NoFile ELSE @]

\* one step of an invocation, from its own locals and file, whether the
\* database directory exists, and whether the call it makes raises
Advance(s, exists, fault) ==
    LET writable == \A i \in 1 .. Len(s.batch) : Serializable(s.batch[i])
        appended ==
            File(s.file.text \o Separator(s.processed_total, s.batch_size)
                    \o Fragment(s.batch))
    IN
    CASE s.pc = "check" ->
            IF fault THEN Failed(s, FALSE) ELSE [s EXCEPT !.pc = "mkdir"]
      [] s.pc = "mkdir" ->
            IF MakeDirRaises(exists, fault) THEN Failed(s, FALSE)
            ELSE [s EXCEPT !.pc = "open", !.found_dir = exists]
      [] s.pc = "open" ->
            IF fault THEN Failed(s, TRUE)
            ELSE LET resuming == Truthy(s.last_processed_id) IN
                 [s EXCEPT !.file = File((IF resuming THEN s.file.text
                                          ELSE <<>>) \o OpeningText(resuming)),
                           !.cursor = Find(s.docs, s.last_processed_id),
                           !.batch = <<>>,
                           !.pc = "loop"]
      [] s.pc = "loop" ->
            IF fault
            THEN IF s.retry_count + 1 <= s.max_retries
                 THEN [s EXCEPT !.retry_count = @ + 1, !.pc = "check"]
                 ELSE [Failed(s, FALSE) EXCEPT !.retry_count = @ + 1]
            ELSE IF s.cursor # <<>>
            THEN [s EXCEPT !.batch = Append(@, process_document(Head(s.cursor))),
                           !.last_processed_id = Head(s.cursor).d["_id"],
                           !.processed_total = @ + 1,
                           !.cursor = Tail(@),
                           !.pc = IF Len(s.batch) + 1 >= s.batch_size
                                  THEN "write" ELSE "loop"]
            ELSE IF s.batch = <<>> THEN [s EXCEPT !.pc = "close"]
            ELSE IF writable THEN [s EXCEPT !.file = appended, !.pc = "close"]
            ELSE Failed(s, TRUE)
      [] s.pc = "write" ->
            IF fault \/ ~writable THEN Failed(s, TRUE)
            ELSE [s EXCEPT !.file = appended, !.batch = <<>>, !.pc = "loop"]
      [] s.pc = "close" ->
            IF fault THEN Failed(s, TRUE)
            ELSE [s EXCEPT !.file = File(s.file.text \o <<RB>>),
                           !.pc = "done", !.result = "True"]
      [] OTHER -> s

\* the directory after the step
DirAfter(s, exists, fault) ==
    exists \/ (s.pc = "mkdir" /\ ~MakeDirRaises(exists, fault))

PairInit ==
    /\ CodecIdle /\ BackupIdle /\ RestoreIdle /\ ListIdle /\ WizardIdle
    /\ coll = Absent /\ backup_path = FALSE /\ disk = NoFile
    /\ pair \in { [p \in Invocations |->
                     Local(PairDocs(p), size[p], retries[p])] :
                   size \in [Invocations -> 1 .. PairBatch],
                   retries \in [Invocations -> 0 .. PairRetries] }
    /\ solo = pair
    /\ shared_dir = FALSE
    /\ own_dir = [p \in Invocations |-> FALSE]

\* invocation p takes its next step; a directory that exists cannot fail
\* to be made
PairStep(p, fault) ==
    /\ pair[p].pc # "done"
    /\ (fault /\ pair[p].pc = "mkdir") => ~shared_dir
    /\ pair' = [pair EXCEPT ![p] = Advance(@, shared_dir, fault)]
    /\ shared_dir' = DirAfter(pair[p], shared_dir, fault)
    /\ solo' = [solo EXCEPT ![p] = Advance(@, own_dir[p], fault)]
    /\ own_dir' = [own_dir EXCEPT ![p] = DirAfter(solo[p], @, fault)]
    /\ UNCHANGED <<codecVars, envVars, backupVars, restoreVars, listVars, wizardVars>>

PairNext == \E p \in Invocations, fault \in BOOLEAN : PairStep(p, fault)

PairSpec == PairInit /\ [][PairNext]_vars

(***************************************************************************)
(* run_restore_wizard (ui/wizard.py): the user picks a backup folder and a *)
(* collection in it, confirms, and restore_collection runs on the choice.  *)
(* The answers of the user are inputs; restore_collection is the steps     *)
(* modelled above.                                                         *)
(***************************************************************************)
\* restore_collection called with force=True
RestoreForceAlways == TRUE

\* the default of the force parameter (restore.py:67); the wizard passes
\* no force argument
RestoreForceDefault == FALSE

WizardInit ==
    /\ CodecIdle /\ BackupIdle /\ RestoreIdle /\ PairIdle /\ ListIdle
    /\ coll \in {Absent} \cup {Collection(q) : q \in Arrangements(1)}
    /\ disk \in {NoFile} \cup {File(text) : text \in ProvidedTexts}
    /\ backup_path \in BOOLEAN
    /\ disk.exists => backup_path
    /\ wizard \in { [NotStarted EXCEPT !.pc = "folders",
                                       !.backup_folders = found] :
                     found \in BOOLEAN }
    /\ backup_path => wizard.backup_folders

\* the wizard returns
WizardReturn(value) == [wizard EXCEPT !.pc = "done", !.result = value]

\* lines 148-151: no backup folder, no restore
WizardFolders ==
    /\ wizard.pc = "folders"
    /\ wizard' = IF wizard.backup_folders
                 THEN [wizard EXCEPT !.pc = "select_folder"]
                 ELSE WizardReturn("False")
    /\ UNCHANGED <<codecVars, envVars, backupVars, restoreVars, pairVars,
                   listVars>>

\* lines 154-161: the user selects a folder, or none
WizardSelectFolder(selected) ==
    /\ wizard.pc = "select_folder"
    /\ wizard' = IF selected
                 THEN [wizard EXCEPT !.pc = "list"]
                 ELSE WizardReturn("False")
    /\ UNCHANGED <<codecVars, envVars, backupVars, restoreVars, pairVars,
                   listVars>>

\* lines 164-167: the collections of the folder; none, no restore
WizardList ==
    /\ wizard.pc = "list"
    /\ LET info == get_collections_info(backup_path, disk) IN
       /\ collections_info' = [called |-> TRUE, info |-> info]
       /\ wizard' = IF DOMAIN info # {}
                    THEN [wizard EXCEPT !.pc = "select_collection"]
                    ELSE WizardReturn("False")
    /\ UNCHANGED <<codecVars, envVars, backupVars, restoreVars, pairVars>>

\* lines 170-172: the user selects a collection, or none
WizardSelectCollection(selected) ==
    /\ wizard.pc = "select_collection"
    /\ wizard' = IF selected
                 THEN [wizard EXCEPT !.pc = "confirm"]
                 ELSE WizardReturn("False")
    /\ UNCHANGED <<codecVars, envVars, backupVars, restoreVars, pairVars,
                   listVars>>

\* lines 175-179: the confirmation, which defaults to no
WizardConfirm(answer) ==
    /\ wizard.pc = "confirm"
    /\ wizard' = IF answer
                 THEN [wizard EXCEPT !.pc = "call", !.confirmed = "yes"]
                 ELSE [WizardReturn("False") EXCEPT !.confirmed = "no"]
    /\ UNCHANGED <<codecVars, envVars, backupVars, restoreVars, pairVars,
                   listVars>>

\* line 183: restore_collection(client, selected_folder, db_name,
\* collection_name) is called
WizardRestore ==
    /\ wizard.pc = "call" /\ rpc = "idle"
    /\ force' = RestoreForceDefault
    /\ before' = coll
    /\ rpc' = "check"
    /\ wizard' = [wizard EXCEPT !.pc = "restoring", !.calls = @ + 1]
    /\ UNCHANGED <<documents, ridx, current_batch, insert_calls, rresult,
                   codecVars, envVars, backupVars, pairVars, listVars>>

\* lines 183-192: True if restore_collection returned True; False if it
\* returned False or raised (RestoreError is an Exception)
WizardFinish ==
    /\ wizard.pc = "restoring" /\ rpc = "done"
    /\ wizard' = WizardReturn(IF rresult = "True" THEN "True" ELSE "False")
    /\ UNCHANGED <<codecVars, envVars, backupVars, restoreVars, pairVars,
                   listVars>>

WizardNext ==
    \/ WizardFolders
    \/ \E selected \in BOOLEAN : WizardSelectFolder(selected)
    \/ WizardList
    \/ \E selected \in BOOLEAN : WizardSelectCollection(selected)
    \/ \E answer \in BOOLEAN : WizardConfirm(answer)
    \/ WizardRestore
    \/ WizardFinish
    \/ RestoreCheck
    \/ RestoreCheckFails
    \/ RestoreLocate
    \/ RestoreLoad
    \/ RestoreStep
    \/ RestoreInsert
    \/ \E n \in 0 .. RestoreBatch : RestoreInsertFails(n)
    \/ RestoreFinish

WizardSpec == WizardInit /\ [][WizardNext]_vars

\* backup_collection has just returned
BackupReturned == bpc = "done" /\ rpc = "idle"

\* the value json.load gives for the file on disk
FileValue == json_load(disk.text)

\* the documents of the collection, encoded, in the order given
Encoded(docs) == PyList([i \in 1 .. Len(docs) |-> process_document(docs[i])])

Ascending(docs) ==
    \A i, j \in 1 .. Len(docs) : i < j => docs[i].d["_id"].i < docs[j].d["_id"].i

\* C1: a backup that returns True after at least one retry has written
\* exactly the source documents, each once, in ascending _id order (stated
\* for the collections whose natural order is already ascending)
C1_ResumeComplete ==
    (BackupReturned /\ bresult = "True" /\ retry_count >= 1
        /\ Ascending(source.docs))
    => FileValue = Encoded(source.docs)

\* C6: when the retries are exhausted the backup returns False and the
\* partial file is gone
C6_ExhaustedDeletes ==
    (BackupReturned /\ blog = "max retries")
    => (bresult = "False" /\ ~disk.exists)

\* C7: a non-transient failure returns False and leaves no partial file
C7_NonTransientDeletes ==
    (BackupReturned /\ blog \in {"mkdir", "failed", "unexpected"})
    => (bresult = "False" /\ ~disk.exists)

\* C10: backing up an existing empty collection returns True when nothing
\* fails, and a True return leaves exactly '[' and ']' in the file
C10_EmptyBackup ==
    (BackupReturned /\ source = Collection(<<>>))
    => /\ faults = 0 => bresult = "True"
       /\ bresult = "True" =>
            /\ disk.exists
            /\ disk.text = <<LB, RB>>
            /\ FileValue = EmptyList

C10_Witness ==
    /\ BackupReturned /\ source = Collection(<<>>) /\ faults = 0
    /\ bresult = "True" /\ disk = File(<<LB, RB>>)

\* restore_collection has returned or raised
RestoreReturned == rpc = "done"

\* the documents of the file, decoded, in file order
Decoded(wire) == [i \in 1 .. Len(wire) |-> restore_types(wire[i])]

\* the file holds one JSON array whose elements are all documents
IsDocumentArray(v) ==
    /\ v # Raise
    /\ v.t = "list"
    /\ \A i \in 1 .. Len(v.l) : v.l[i].t = "dict"

\* C2: while backup_collection runs, and after it is killed, the file on
\* disk (with any part of the buffer that reached it) does not parse; a
\* restore from the file a killed backup left does not succeed and issues
\* no insert
C2_CrashSafety ==
    /\ (bpc \in Running /\ disk.exists) =>
            \A reached \in 0 .. Len(wbuf) :
                json_load(disk.text \o SubSeq(wbuf, 1, reached)) = Raise
    /\ (bpc = "killed" /\ disk.exists) => FileValue = Raise
    /\ (bpc = "killed" /\ RestoreReturned) =>
            (rresult # "True" /\ insert_calls = <<>>)

\* a backup killed on a retry attempt left a bracket and a fragment, the
\* restore under force got past the existence check and the file check, and
\* failed on the parse
C2_Witness ==
    /\ bpc = "killed" /\ faults >= 1
    /\ RestoreReturned /\ rresult = "False"
    /\ disk.exists /\ Len(disk.text) >= 2
    /\ force /\ before.exists /\ ~coll.exists

\* C3: restore_collection without force on an existing collection raises
\* RestoreError (unless listing the collections itself fails) and writes
\* nothing: the collection stays as it was and no insert is issued
C3_NoForceUntouched ==
    /\ [](  (rpc # "idle" /\ ~force /\ before.exists) =>
                /\ coll = before
                /\ insert_calls = <<>>
                /\ rpc \in {"check", "done"} )
    /\ [][ (rpc = "check" /\ ~force /\ coll.exists /\ ~RestoreCheckFails) =>
                (rpc' = "done" /\ rresult' = "RestoreError") ]_vars

C3_Witness ==
    /\ RestoreReturned /\ rresult = "RestoreError" /\ ~force
    /\ before.exists /\ before.docs # <<>> /\ coll = before
    /\ disk.exists /\ IsDocumentArray(FileValue)

\* C4: when restore_collection under force on an existing collection
\* returns True, the collection holds exactly the decoded documents of the
\* file, so none of those it held before unless the file has it too
C4_ForceReplaces ==
    (RestoreReturned /\ rresult = "True" /\ force /\ before.exists
        /\ IsDocumentArray(FileValue))
    => /\ coll.docs = Decoded(FileValue.l)
       /\ \A i \in 1 .. Len(before.docs) :
            (\E j \in 1 .. Len(coll.docs) : coll.docs[j] = before.docs[i])
            => \E j \in 1 .. Len(FileValue.l) :
                    restore_types(FileValue.l[j]) = before.docs[i]

C4_Witness ==
    /\ RestoreReturned /\ rresult = "True" /\ force
    /\ before.exists /\ before.docs # <<>>
    /\ coll.docs # <<>> /\ coll.docs # before.docs
    /\ coll.docs = Decoded(FileValue.l)

\* C8: a file that is not one JSON array of documents makes
\* restore_collection fail with nothing inserted
C8_CorruptRejected ==
    (RestoreReturned /\ disk.exists /\ ~IsDocumentArray(FileValue)
        /\ rresult # "RestoreError")
    => (rresult = "False" /\ insert_calls = <<>>)

\* C9: after a successful restore of an empty array the collection exists
\* and holds no document
C9_EmptyRestoreCreates ==
    (RestoreReturned /\ rresult = "True" /\ disk.exists
        /\ FileValue = EmptyList)
    => (coll.exists /\ coll.docs = <<>>)

\* the encoding of every document of the collection has a JSON form
AllSerializable(docs) ==
    \A i \in 1 .. Len(docs) : Serializable(process_document(docs[i]))

\* C11: with no failure, whatever the batch size, the backup of a collection
\* (whose encoded documents json.dumps accepts) returns True and the file
\* decodes to the same array: the N encoded documents in the order find
\* yields them; so two runs with different batch sizes give equal content
C11_BatchInvariance ==
    (BackupReturned /\ faults = 0 /\ source.exists
        /\ AllSerializable(source.docs))
    => /\ bresult = "True"
       /\ disk.exists
       /\ FileValue = Encoded(source.docs)

\* three documents in batches of two: a full batch, then a partial one
\* after a separator
C11_Witness ==
    /\ BackupReturned /\ faults = 0 /\ bresult = "True"
    /\ Len(source.docs) = 3 /\ batch_size = 2 /\ processed_total = 3
    /\ Len(disk.text) = 7

Min(a, b) == IF a < b THEN a ELSE b

\* the k-th batch the loop of restore_collection builds from the documents
BatchOf(docs, k) ==
    Decoded(SubSeq(docs, (k - 1) * RestoreBatch + 1,
                   Min(k * RestoreBatch, Len(docs))))

\* insert_many is called and does not insert the whole batch
InsertFailed ==
    /\ rpc = "insert"
    /\ coll' # AfterInsert(coll, current_batch, Len(current_batch))

\* C12: a failing insert_many ends restore_collection at once with False;
\* the calls made are the batches of the file in order, each once, none
\* after the failing one, and what went in before the failure stays
C12_FailFast ==
    /\ [][ InsertFailed =>
                /\ rpc' = "done" /\ rresult' = "False"
                /\ insert_calls' = Append(insert_calls, current_batch) ]_vars
    /\ []( (RestoreReturned /\ rresult = "False" /\ insert_calls # <<>>) =>
                /\ \A k \in 1 .. Len(insert_calls) :
                        insert_calls[k] = BatchOf(documents, k)
                /\ Len(coll.docs) >= (Len(insert_calls) - 1) * RestoreBatch
                /\ Len(coll.docs) <= Len(insert_calls) * RestoreBatch
                /\ coll.docs = SubSeq(Decoded(documents), 1, Len(coll.docs)) )

\* the first batch of a file of three documents failed after one document
\* went in; the third document was never sent
C12_Witness ==
    /\ RestoreReturned /\ rresult = "False"
    /\ Len(documents) = 3 /\ ridx = 3
    /\ Len(insert_calls) = 1 /\ Len(insert_calls[1]) = 2
    /\ Len(coll.docs) = 1

\* the number of insert_many calls a file of m documents takes
BatchCount(m) == (m + RestoreBatch - 1) \div RestoreBatch

\* C13: when restore_collection returns True on a file of M documents,
\* insert_many was called on the consecutive slices of the file in file
\* order, every document went in exactly once and the collection holds M
\* documents
C13_OrderAndCount ==
    (RestoreReturned /\ rresult = "True" /\ disk.exists
        /\ IsDocumentArray(FileValue))
    => /\ documents = FileValue.l
       /\ Len(insert_calls) = BatchCount(Len(FileValue.l))
       /\ \A k \in 1 .. Len(insert_calls) :
            insert_calls[k] = BatchOf(FileValue.l, k)
       /\ Len(coll.docs) = Len(FileValue.l)
       /\ coll.docs = Decoded(FileValue.l)

\* three documents restored in a full batch and a remaining one
C13_Witness ==
    /\ RestoreReturned /\ rresult = "True"
    /\ IsDocumentArray(FileValue) /\ Len(FileValue.l) = 3
    /\ Len(insert_calls) = 2
    /\ Len(insert_calls[1]) = 2 /\ Len(insert_calls[2]) = 1
    /\ Len(coll.docs) = 3

\* the elements of a sequence
Range(seq) == {seq[i] : i \in 1 .. Len(seq)}

\* the workflow of test_backup_restore_workflow: the collection was backed
\* up with no failure, then dropped, then restore_collection was called
EndToEnd ==
    /\ bpc = "done" /\ faults = 0
    /\ source.exists /\ AllSerializable(source.docs)
    /\ rpc # "idle" /\ ~before.exists

C15_NotFound ==
    (BackupReturned /\ ~source.exists)
    => /\ bresult = "False"
       /\ blog \in {"does not exist", "unexpected"}
       /\ ~disk.exists
       /\ ~backup_path

C15_Witness ==
    /\ BackupReturned /\ ~source.exists /\ ~coll.exists
    /\ bresult = "False" /\ blog = "does not exist" /\ faults = 0
    /\ disk = NoFile

\* C16: restore_collection with no backup file and no target collection
\* returns False, inserts nothing and creates no collection
C16_FileNotFound ==
    /\ []( (RestoreReturned /\ ~disk.exists /\ ~before.exists) =>
                /\ rresult = "False"
                /\ insert_calls = <<>>
                /\ ~coll.exists )
    /\ [][ (rpc = "locate" /\ ~disk.exists) =>
                /\ rpc' = "done" /\ rresult' = "False"
                /\ UNCHANGED <<coll, insert_calls, disk>> ]_vars

\* restore_collection called with nothing backed up and nothing to replace
C16_Witness ==
    /\ RestoreReturned /\ bpc = "idle" /\ disk = NoFile /\ ~backup_path
    /\ ~before.exists /\ coll = Absent
    /\ rresult = "False" /\ insert_calls = <<>>

\* C17: with no failure of the database or the file system, a backup of an
\* existing collection returns True whatever its documents hold
C17_ContentNeverFails ==
    (BackupReturned /\ faults = 0 /\ source.exists) => bresult = "True"

\* a two-field tagged wrapper
IsWrapper(w) == w.t = "dict" /\ DOMAIN w.d = {"$type", "$value"}

\* w stands for v on the wire: a wrapper for a timestamp, an identifier or
\* a binary blob, the value itself for null, booleans, numbers and
\* strings, and field by field, item by item, for objects and arrays
RECURSIVE TaggedEncoding(_, _)
TaggedEncoding(v, w) ==
    CASE v.t \in {"datetime", "oid", "bytes"} -> IsWrapper(w)
      [] v.t = "dict" ->
            /\ w.t = "dict" /\ DOMAIN w.d = DOMAIN v.d
            /\ \A k \in DOMAIN v.d : TaggedEncoding(v.d[k], w.d[k])
      [] v.t = "list" ->
            /\ w.t = "list" /\ Len(w.l) = Len(v.l)
            /\ \A i \in 1 .. Len(v.l) : TaggedEncoding(v.l[i], w.l[i])
      [] OTHER -> w = v

\* C18: the encoding of a document holds a tagged wrapper wherever the
\* document holds a timestamp, an identifier or a binary blob, at any
\* depth, and the value itself wherever it holds null, a boolean, a number
\* or a string
C18_TaggedWrappers == cpc = "encoded" => TaggedEncoding(cval, cwire)

\* an object with "$type" and "$value" whose type restore_types converts
IsConverted(w) ==
    /\ w.t = "dict" /\ {"$type", "$value"} \subseteq DOMAIN w.d
    /\ w.d["$type"] \in {PyStr("ObjectId"), PyStr("datetime")}

\* w holds, at some depth, an ObjectId or datetime wrapper whose value the
\* conversion rejects
RECURSIVE HasBadWrapper(_)
HasBadWrapper(w) ==
    CASE w.t = "dict" ->
            IF IsConverted(w)
            THEN IF w.d["$type"] = PyStr("ObjectId")
                 THEN ObjectId(w.d["$value"]) = Raise
                 ELSE fromisoformat(w.d["$value"]) = Raise
            ELSE \E k \in DOMAIN w.d : HasBadWrapper(w.d[k])
      [] w.t = "list" -> \E i \in 1 .. Len(w.l) : HasBadWrapper(w.l[i])
      [] OTHER -> FALSE

\* r is w with the ObjectId and datetime wrappers converted and everything
\* else, objects with another "$type" included, structurally unchanged
RECURSIVE LenientDecoding(_, _)
LenientDecoding(w, r) ==
    CASE w.t = "dict" ->
            IF IsConverted(w)
            THEN r.t = (IF w.d["$type"] = PyStr("ObjectId")
                        THEN "oid" ELSE "datetime")
            ELSE /\ r.t = "dict" /\ DOMAIN r.d = DOMAIN w.d
                 /\ \A k \in DOMAIN w.d : LenientDecoding(w.d[k], r.d[k])
      [] w.t = "list" ->
            /\ r.t = "list" /\ Len(r.l) = Len(w.l)
            /\ \A i \in 1 .. Len(w.l) : LenientDecoding(w.l[i], r.l[i])
      [] OTHER -> r = w

\* C19: restore_types raises for no value whose ObjectId and datetime
\* wrappers are well formed; an object with an unrecognized "$type" comes
\* back as an object with its fields decoded, only ObjectId and datetime
\* wrappers are converted, and every other value is unchanged
C19_LenientDecode ==
    (cpc = "decoded" /\ ~HasBadWrapper(cwire))
    => (cback # Raise /\ LenientDecoding(cwire, cback))

\* a wrapper typed "uuid" whose value is a datetime wrapper: the object is
\* kept and the wrapper inside it is converted
C19_Witness ==
    /\ cpc = "decoded"
    /\ cwire = PyDict("a" :> PyDict(("$type" :> PyStr("uuid")) @@
                        ("$value" :> Wrapper("datetime", isoformat(1)))))
    /\ cback = PyDict("a" :> PyDict(("$type" :> PyStr("uuid")) @@
                        ("$value" :> PyDatetime(1))))

\* C20: True is returned only for a completed transfer: by
\* backup_collection when every source document is in the file, by
\* restore_collection when the file is one JSON array of documents and all
\* of them are in the collection
C20_TrueMeansComplete ==
    /\ (BackupReturned /\ bresult = "True") =>
            /\ disk.exists /\ IsDocumentArray(FileValue)
            /\ \A i \in 1 .. Len(source.docs) :
                    process_document(source.docs[i]) \in Range(FileValue.l)
    /\ (RestoreReturned /\ rresult = "True") =>
            /\ disk.exists /\ IsDocumentArray(FileValue)
            /\ coll.docs = Decoded(FileValue.l)

\* C21: a collStats failure only sets the estimate to 0 and moves on to the
\* file; a backup that meets no other failure then returns True with every
\* document in the file
C21_StatsFallback ==
    /\ [][ (bpc = "stats" /\ CollStats(FALSE)) =>
                /\ bpc' = "open" /\ estimated_docs' = 0
                /\ UNCHANGED <<bresult, blog, disk, retry_count>> ]_vars
    /\ []( ( /\ BackupReturned /\ faults = 0
             /\ source.exists /\ source.docs # <<>>
             /\ AllSerializable(source.docs)
             /\ estimated_docs = 0 ) =>
                /\ bresult = "True"
                /\ FileValue = Encoded(source.docs) )

\* collStats was refused for a collection of three documents and the
\* backup wrote all three
C21_Witness ==
    /\ BackupReturned /\ faults = 0 /\ bresult = "True"
    /\ Len(source.docs) = 3 /\ estimated_docs = 0
    /\ processed_total = 3
    /\ FileValue = Encoded(source.docs)

\* what an invocation leaves behind: its return value and its file
Outcome(s) == [result |-> s.result, file |-> s.file]

\* C22: under every interleaving of two invocations on two collections of
\* one database, each invocation is at every step where it would be had
\* it run alone, and returns the same value and leaves the same file
C22_Independent ==
    \A p \in Invocations :
        /\ [pair[p] EXCEPT !.found_dir = FALSE]
                = [solo[p] EXCEPT !.found_dir = FALSE]
        /\ pair[p].pc = "done" => Outcome(pair[p]) = Outcome(solo[p])

\* both invocations returned True; the second found the database directory
\* the first had made, which it would not have found alone
C22_Witness ==
    /\ \A p \in Invocations :
            /\ pair[p].pc = "done" /\ pair[p].result = "True"
            /\ json_load(pair[p].file.text) = Encoded(PairDocs(p))
    /\ ~pair[1].found_dir /\ pair[2].found_dir /\ ~solo[2].found_dir

\* C23: get_collections_info lists a collection file that parses as a JSON
\* array with the number of its elements, lists no file that fails to
\* parse, and no database without a listed collection
C23_Listing ==
    collections_info.called =>
        LET info == collections_info.info IN
        /\ (disk.exists /\ FileValue # Raise /\ FileValue.t = "list") =>
                /\ DOMAIN info = {"db"}
                /\ Len(info["db"]) = 1
                /\ info["db"][1].doc_count = Len(FileValue.l)
        /\ (~disk.exists \/ FileValue = Raise) => DOMAIN info = {}
        /\ \A k \in DOMAIN info : info[k] # <<>>

\* the file a finished backup of three documents left is listed with
\* three documents
C23_Witness ==
    /\ collections_info.called
    /\ bpc = "done" /\ bresult = "True" /\ Len(source.docs) = 3
    /\ DOMAIN collections_info.info = {"db"}
    /\ collections_info.info["db"][1].doc_count = 3

\* the positions of a token in a text
Positions(text, tok) == {i \in 1 .. Len(text) : text[i] = tok}

\* C24: whenever backup_collection returns True the file parses as one
\* JSON array and its only closing bracket is its last token
C24_TrueIsValidArray ==
    (BackupReturned /\ bresult = "True")
    => /\ disk.exists
       /\ FileValue # Raise /\ FileValue.t = "list"
       /\ Positions(disk.text, RB) = {Len(disk.text)}

\* the _id of the last document in a text, None if it holds no document
LastWrittenId(text) ==
    LET at == {i \in 1 .. Len(text) : text[i].k = "elem"} IN
    IF at = {} THEN None
    ELSE text[CHOOSE i \in at : \A j \in at : j <= i].v.d["_id"]

\* C25: between two fetches from the cursor, last_processed_id is the _id
\* of the last document written to the file in this invocation, None if
\* none has been written
C25_CursorIsLastWritten ==
    (bpc = "loop" /\ disk.exists)
    => last_processed_id = LastWrittenId(disk.text \o wbuf)

\* every comma of the text directly follows a document, and every document
\* but the first directly follows a comma
CommaRule(text) ==
    \A i \in 1 .. Len(text) :
        /\ text[i] = Comma => (i > 1 /\ text[i - 1].k = "elem")
        /\ (text[i].k = "elem" /\ i > 1) => text[i - 1] \in {LB, Comma}

\* C26: in every run, with or without retries, what backup_collection has
\* written to the file has a comma before a fragment exactly when a
\* fragment precedes it: never a comma directly after the opening bracket,
\* never two fragments without a comma between them
C26_CommaRule ==
    ((bpc \in Running \/ BackupReturned) /\ disk.exists)
    => CommaRule(disk.text \o wbuf)

\* C27: a restore under force that fails because the backup file is absent
\* or does not parse leaves the existing collection and its documents as
\* they were
C27_ForceKeepsOnBadFile ==
    (RestoreReturned /\ force /\ before.exists /\ rresult = "False"
        /\ (~disk.exists \/ FileValue = Raise))
    => coll = before

\* C28: backup_collection returns False because the source raised a
\* connectivity failure (in list_collection_names, or from the cursor) only
\* when all max_retries retries have been used
C28_TransientRetried ==
    (BackupReturned /\ bresult = "False")
    => /\ blog = "unexpected" => retry_count >= max_retries
       /\ blog = "max retries" => retry_count = max_retries + 1

\* C29: backup_collection terminates: a cursor is acquired only while
\* retry_count <= max_retries, so in at most max_retries + 1 attempts;
\* retry_count never exceeds max_retries + 1, and when it gets there the
\* backup has returned False; every running backup comes to an end
C29_Terminates ==
    /\ []( /\ retry_count <= max_retries + 1
           /\ bpc \in Running => retry_count <= max_retries
           /\ (bpc \in Running \/ BackupReturned) => faults >= retry_count
           /\ (BackupReturned /\ retry_count = max_retries + 1) =>
                    (bresult = "False" /\ blog = "max retries") )
    /\ [][ (bpc = "loop" /\ retry_count = max_retries /\ CursorFails) =>
                (bpc' = "done" /\ bresult' = "False") ]_vars
    /\ (bpc \in Running) ~> (bpc \in {"done", "killed"})

\* max_retries = 0: the first failure of the cursor ended the backup
C29_Witness ==
    /\ BackupReturned /\ max_retries = 0 /\ retry_count = 1 /\ faults = 1
    /\ bresult = "False" /\ blog = "max retries"

\* the text holds a document
HasDocument(text) == \E i \in 1 .. Len(text) : text[i].k = "elem"

\* text b starts with text a
IsPrefix(a, b) == Len(a) <= Len(b) /\ SubSeq(b, 1, Len(a)) = a

\* C30: while backup_collection runs, a step that leaves a file leaves the
\* fragments already in it where they were: the file only grows at its
\* end, on a retry as on the first attempt
C30_NoTruncation ==
    [][ (bpc \in Running /\ disk.exists /\ HasDocument(disk.text)
            /\ disk'.exists)
        => IsPrefix(disk.text, disk'.text) ]_vars

\* C31: once backup_collection has opened the file, in the first attempt
\* and in every retried one, what has been written to the file holds
\* exactly one opening bracket, its first token; the part that has reached
\* the disk never holds a bracket anywhere else
C31_OneOpeningBracket ==
    ((bpc \in Running \/ BackupReturned) /\ disk.exists)
    => /\ Positions(disk.text \o wbuf, LB) = {1}
       /\ Positions(disk.text, LB) \subseteq {1}

\* a retried attempt that started over (the only document read had the
\* falsy _id 0) has written its first batch
C31_Witness ==
    /\ bpc = "loop" /\ retry_count = 2 /\ disk.exists
    /\ last_processed_id = PyInt(0)
    /\ HasDocument(disk.text)

\* C32: every cursor backup_collection opens, in the first attempt and on
\* every resume, yields its documents in ascending _id order: what remains
\* to be yielded is ascending at every point of the loop
C32_CursorAscending ==
    (bpc \in {"loop", "write"}) => Ascending(cursor)

\* C33: when a document of the backup file does not decode, wherever it is
\* in the file, and no insert_many call fails, restore_collection fails and
\* has inserted no document: the collection is as it was at the call, or
\* absent (dropped under force)
C33_BadDocumentInsertsNothing ==
    (RestoreReturned /\ rresult # "RestoreError" /\ disk.exists
        /\ FileValue # Raise /\ FileValue.t = "list"
        /\ \E i \in 1 .. Len(FileValue.l) :
                restore_types(FileValue.l[i]) = Raise
        /\ \A k \in 1 .. Len(insert_calls) :
                Range(insert_calls[k]) \subseteq Range(coll.docs))
    => /\ rresult = "False"
       /\ coll \in {before, Absent}

\* C34: the k-th retry of backup_collection (k = 1 .. max_retries) is
\* preceded by a wait of retry_delay * 2^(k-1) seconds: there is one wait
\* per retry started and none once the retries are exhausted, the waits
\* double, and a step that starts a retry has just waited
C34_ExponentialBackoff ==
    /\ []( /\ Len(sleeps) = Min(retry_count, max_retries)
           /\ \A k \in 1 .. Len(sleeps) :
                    sleeps[k] = RetryDelayDefault * 2 ^ (k - 1)
           /\ retry_delay = RetryDelayDefault * 2 ^ Len(sleeps) )
    /\ [][ (bpc = "loop" /\ bpc' = "check")
                => sleeps' = Append(sleeps, retry_delay) ]_vars
    /\ [][ (bpc \in Running /\ bpc' = "done") => sleeps' = sleeps ]_vars

\* both retries were used, each after its wait, and a third failure ended
\* the backup without a wait
C34_Witness ==
    /\ BackupReturned /\ bresult = "False" /\ blog = "max retries"
    /\ max_retries = 2 /\ retry_count = 3
    /\ sleeps = <<RetryDelayDefault, 2 * RetryDelayDefault>>

\* the number of documents in a text
DocumentCount(text) ==
    Cardinality({i \in 1 .. Len(text) : text[i].k = "elem"})

\* C35: at every point of backup_collection's loop processed_total is the
\* number of documents written to the file plus the number held in the
\* batch, and when the array is about to be closed (the count then logged
\* on success) it is the number of documents in the file, also after retries
C35_CountInvariant ==
    /\ (bpc \in {"loop", "write"} /\ disk.exists)
            => processed_total = DocumentCount(disk.text \o wbuf) + Len(batch)
    /\ (bpc = "close" /\ disk.exists)
            => processed_total = DocumentCount(disk.text \o wbuf)

\* C36: a retry attempt of backup_collection resumes (the file kept, no new
\* opening bracket, the cursor filtered on _id > last id) exactly when a
\* document was read in an earlier attempt, whatever its _id; otherwise it
\* starts over on a truncated file, with no document counted
C36_ResumeIffRead ==
    [][ (bpc = "open" /\ retry_count >= 1 /\ bpc' = "loop")
        => IF processed_total > 0
           THEN /\ disk'.text = disk.text /\ wbuf' = <<>>
                /\ \A i \in 1 .. Len(cursor') :
                        cursor'[i].d["_id"].i > last_processed_id.i
           ELSE /\ disk'.text = <<>> /\ wbuf' = <<LB>>
                /\ last_processed_id = None ]_vars

\* C37: at every point of backup_collection the batch list holds at most
\* batch_size documents, however many the collection holds: fewer than
\* batch_size between two fetches, exactly batch_size when it is written
C37_BoundedBatch ==
    /\ bpc \in Running => Len(batch) <= batch_size
    /\ bpc = "loop" => Len(batch) < batch_size
    /\ bpc = "write" => Len(batch) = batch_size

\* the third batch of one document of a collection of three is full
C37_Witness ==
    /\ bpc = "write" /\ batch_size = 1 /\ Len(batch) = 1
    /\ processed_total = 3 /\ Len(coll.docs) = 3
    /\ DocumentCount(disk.text) = 2

\* C38: every insert_many call of restore_collection carries at least one
\* document and at most the batch size (1000 in the code), every call but
\* the last carries exactly the batch size, and an empty backup array
\* leads to no call
C38_InsertBatches ==
    /\ \A k \in 1 .. Len(insert_calls) :
            /\ Len(insert_calls[k]) >= 1
            /\ Len(insert_calls[k]) <= RestoreBatch
            /\ k < Len(insert_calls) => Len(insert_calls[k]) = RestoreBatch
    /\ (RestoreReturned /\ disk.exists /\ FileValue = EmptyList)
            => insert_calls = <<>>

\* three documents restored in one full batch followed by the rest
C38_Witness ==
    /\ RestoreReturned /\ rresult = "True"
    /\ Len(documents) = 3
    /\ Len(insert_calls) = 2
    /\ Len(insert_calls[1]) = 2 /\ Len(insert_calls[2]) = 1

\* C39: run_restore_wizard calls restore_collection at most once, only
\* after the confirmation was answered yes, and without force; no step of
\* the wizard drops the existing collection or removes a document from it;
\* when the collection exists the wizard returns False and the collection
\* is as it was
C39_WizardNeverDrops ==
    /\ []( /\ wizard.calls <= 1
           /\ wizard.calls = 1 => wizard.confirmed = "yes"
           /\ rpc # "idle" =>
                (wizard.calls = 1 /\ wizard.confirmed = "yes" /\ ~force)
           /\ (wizard.pc = "done" /\ rresult = "RestoreError")
                => wizard.result = "False"
           /\ (wizard.pc = "done" /\ wizard.calls = 1 /\ before.exists)
                => (wizard.result = "False" /\ coll = before) )
    /\ [][ coll.exists =>
                (coll'.exists /\ IsPrefix(coll.docs, coll'.docs)) ]_vars

\* the wizard was confirmed for a collection that exists and holds a
\* document: restore_collection raised RestoreError, the wizard returned
\* False
C39_Witness ==
    /\ wizard.pc = "done" /\ wizard.calls = 1 /\ wizard.confirmed = "yes"
    /\ before.exists /\ before.docs # <<>>
    /\ rresult = "RestoreError" /\ wizard.result = "False"
    /\ coll = before

====
